---- MODULE Spec2Model ----
(***************************************************************************)
(* A model of "go mod download" (cmd/go/internal/modcmd/download.go):      *)
(* runDownload checks the module configuration, asks modload.ListModules   *)
(* for the module descriptors, builds the list of moduleJSON records, runs *)
(* the six fetch stages of every record through a par.Work worklist with   *)
(* 10 workers, and reports the records in JSON or plain mode.              *)
(*                                                                         *)
(* A *moduleJSON pointer is modelled by the index of the record in mods:   *)
(* every iteration of the loop at download.go:131 allocates a new record,  *)
(* so the index is the identity of the pointer.  Go strings are TLA+       *)
(* strings and the empty string is "".                                     *)
(***************************************************************************)
EXTENDS Integers, Sequences, FiniteSets, TLC

VARIABLES
    pc,           \* position of runDownload: start, list, do, report, done, fatal
    GO111MODULE,  \* cfg.Getenv("GO111MODULE")
    hasModRoot,   \* modload.HasModRoot()
    args,         \* the args of runDownload
    downloadJSON, \* the -json flag
    listCalls,    \* the argument lists modload.ListModules was called with
    infos,        \* what modload.ListModules returned
    mods,         \* var mods []*moduleJSON
    work,         \* var work par.Work: added, todo, running
    wpc,          \* per record: 0 not run, 1..6 the stage its worker calls next, 7 returned
    calls,        \* per record: the stage calls made for it, in order
    completed,    \* the records in the order their worker invocation returned
    stdout,       \* what was written to os.Stdout
    stderr,       \* what was written to os.Stderr (notices, diagnostics, fatal messages)
    k,            \* the index of the reporting loop
    exitStatus    \* base's exit status, 0 until set

vars == <<pc, GO111MODULE, hasModRoot, args, downloadJSON, listCalls, infos, mods,
          work, wpc, calls, completed, stdout, stderr, k, exitStatus>>

-----------------------------------------------------------------------------
(* Bounds of the model. *)

\* the longest list modload.ListModules returns
MaxDescs == 2

-----------------------------------------------------------------------------
(* Program constants. *)

\* the number of workers of work.Do
Concurrency == 10

\* modload.Target.Path, the path of the main module
TargetPath == "m"

\* the fetch stages in the order runDownload calls them, by the field they fill
StageNames == <<"Info", "GoMod", "GoModSum", "Zip", "Sum", "Dir">>

\* the stages whose call returns an error value next to its result:
\* modfetch.Sum (download.go:179) returns a string only
Fallible == {"Info", "GoMod", "GoModSum", "Zip", "Dir"}

-----------------------------------------------------------------------------
(* The inputs: argument lists and the descriptors the resolver may return. *)

ArgLists == {<<>>, <<"m@latest", "a@v1">>}

Leaf(p, v, e) == [Path |-> p, Version |-> v, Error |-> e]

\* modload.ModulePublic: Replace is <<>> for nil, or <<r>> for a pointer to r
ModulePublic(p, v, e, r) == [Path |-> p, Version |-> v, Error |-> e, Replace |-> r]

ModulePublics ==
    { ModulePublic("a", "v1", "", <<>>),
      ModulePublic("r", "v0", "replaced", <<ModulePublic("b", "v2", "", <<Leaf("z", "v9", "")>>)>>),
      ModulePublic(TargetPath, "", "", <<>>),
      ModulePublic("c", "", "not found", <<>>),
      ModulePublic("f", "v0", "", <<Leaf("./f", "", "")>>) }

RECURSIVE SeqsUpTo(_, _)
SeqsUpTo(S, n) ==
    IF n = 0 THEN {<<>>}
    ELSE LET shorter == SeqsUpTo(S, n - 1)
         IN  shorter \cup {Append(s, x) : s \in {t \in shorter : Len(t) = n - 1}, x \in S}

InfoLists == SeqsUpTo(ModulePublics, MaxDescs)

-----------------------------------------------------------------------------
(* download.go:82-106: the configuration and usage checks. *)

Fatalf(msg) ==
    /\ stderr' = Append(stderr, [kind |-> "fatal", text |-> msg])
    /\ exitStatus' = 1
    /\ pc' = "fatal"

\* download.go:96-102: the spellings of the main module
IsMainModuleArg(arg) ==
    arg \in {TargetPath, TargetPath \o "@latest", TargetPath \o "@upgrade",
             TargetPath \o "@patch"}

\* download.go:100-105: one notice per argument that names the main module
RECURSIVE SkipNotices(_)
SkipNotices(as) ==
    IF as = <<>> THEN <<>>
    ELSE (IF IsMainModuleArg(Head(as))
          THEN <<[kind |-> "skip", text |-> Head(as)]>>
          ELSE <<>>) \o SkipNotices(Tail(as))

\* the usage check forgets the module root
UsageErrorNoRoot == Len(args) = 0

\* download.go:85
UsageError == ~hasModRoot /\ Len(args) = 0

ModulesDisabled ==
    /\ pc = "start"
    /\ GO111MODULE = "off"
    /\ Fatalf("go: modules disabled by GO111MODULE=off")
    /\ UNCHANGED <<GO111MODULE, hasModRoot, args, downloadJSON, listCalls, infos, mods,
                   work, wpc, calls, completed, stdout, k>>

NoModules ==
    /\ pc = "start"
    /\ GO111MODULE # "off"
    /\ UsageError
    /\ Fatalf("go mod download: no modules specified")
    /\ UNCHANGED <<GO111MODULE, hasModRoot, args, downloadJSON, listCalls, infos, mods,
                   work, wpc, calls, completed, stdout, k>>

CheckArgs ==
    /\ pc = "start"
    /\ GO111MODULE # "off"
    /\ ~UsageError
    /\ IF Len(args) = 0
       THEN /\ args' = <<"all">>
            /\ UNCHANGED stderr
       ELSE /\ UNCHANGED args
            /\ stderr' = IF hasModRoot THEN stderr \o SkipNotices(args) ELSE stderr
    /\ pc' = "list"
    /\ UNCHANGED <<GO111MODULE, hasModRoot, downloadJSON, listCalls, infos, mods,
                   work, wpc, calls, completed, stdout, k, exitStatus>>

-----------------------------------------------------------------------------
(* par.Work, the worklist of cmd/go/internal/par. *)

EmptyWork == [added |-> {}, todo |-> {}, running |-> {}]

\* (*par.Work).Add: an item that was added before is not added again
WorkAdd(w, item) ==
    IF item \in w.added THEN w
    ELSE [w EXCEPT !.added = @ \cup {item}, !.todo = @ \cup {item}]

-----------------------------------------------------------------------------
(* download.go:131-152: the records and the work items of the descriptors. *)

\* the replacement is not followed
FollowReplaceOriginal(info) == Leaf(info.Path, info.Version, info.Error)

\* download.go:133-135
FollowReplace(info) ==
    IF info.Replace # <<>> THEN info.Replace[1] ELSE Leaf(info.Path, info.Version, info.Error)

\* the descriptor is dropped for its empty version alone
NothingToDownloadNoVersion(info) == info.Version = ""

\* download.go:136: main module or module replaced with file path
NothingToDownload(info) == info.Version = "" /\ info.Error = ""

\* download.go:141-144 and 146-147
NewModuleJSON(info) ==
    [Path |-> info.Path, Version |-> info.Version, Error |-> info.Error,
     Info |-> "", GoMod |-> "", Zip |-> "", Dir |-> "", Sum |-> "", GoModSum |-> ""]

\* the record is put in front of the list
AppendModFront(ms, m) == <<m>> \o ms

\* download.go:145
AppendMod(ms, m) == Append(ms, m)

\* download.go:151: the item handed to work.Add is the pointer m
AddItem(w, ms) == WorkAdd(w, Len(ms))

\* a record with a resolution error is handed to the scheduler as well
LoopBodyNoContinue(st, info0) ==
    LET info == FollowReplace(info0)
    IN  IF NothingToDownload(info) THEN st
        ELSE LET ms == AppendMod(st.mods, NewModuleJSON(info))
             IN  [mods |-> ms, work |-> AddItem(st.work, ms)]

\* the record is never handed to the scheduler
LoopBodyNoAdd(st, info0) ==
    LET info == FollowReplace(info0)
    IN  IF NothingToDownload(info) THEN st
        ELSE [st EXCEPT !.mods = AppendMod(st.mods, NewModuleJSON(info))]

\* one iteration of the loop at download.go:131
LoopBody(st, info0) ==
    LET info == FollowReplace(info0)
    IN  IF NothingToDownload(info) THEN st
        ELSE LET ms == AppendMod(st.mods, NewModuleJSON(info))
             IN  IF info.Error # "" THEN [st EXCEPT !.mods = ms]
                 ELSE [mods |-> ms, work |-> AddItem(st.work, ms)]

RECURSIVE Loop(_, _)
Loop(st, l) == IF l = <<>> THEN st ELSE Loop(LoopBody(st, Head(l)), Tail(l))

ListModules ==
    /\ pc = "list"
    /\ \E l \in InfoLists :
          LET st == Loop([mods |-> <<>>, work |-> EmptyWork], l)
          IN  /\ infos' = l
              /\ listCalls' = Append(listCalls, args)
              /\ mods' = st.mods
              /\ work' = st.work
              /\ wpc' = [i \in 1..Len(st.mods) |-> 0]
              /\ calls' = [i \in 1..Len(st.mods) |-> <<>>]
    /\ pc' = "do"
    /\ UNCHANGED <<GO111MODULE, hasModRoot, args, downloadJSON, completed, stdout,
                   stderr, k, exitStatus>>

-----------------------------------------------------------------------------
(* download.go:68-78 and 189: the JSON form of a record. *)

\* the fields of moduleJSON in declaration order (download.go:68-78)
FieldOrder == <<"Path", "Version", "Error", "Info", "GoMod", "Zip", "Dir", "Sum", "GoModSum">>

\* json.MarshalIndent of a moduleJSON: every field is omitempty
RECURSIVE MarshalFields(_, _)
MarshalFields(m, fs) ==
    IF fs = <<>> THEN <<>>
    ELSE (IF m[Head(fs)] # "" THEN <<<<Head(fs), m[Head(fs)]>>>> ELSE <<>>)
         \o MarshalFields(m, Tail(fs))

Marshal(m) == MarshalFields(m, FieldOrder)

-----------------------------------------------------------------------------
(* download.go:155-185: work.Do and the worker. *)

\* a worker of work.Do takes an item from todo
StartWorker(i) ==
    /\ pc = "do"
    /\ i \in work.todo
    /\ Cardinality(work.running) < Concurrency
    /\ work' = [work EXCEPT !.todo = @ \ {i}, !.running = @ \cup {i}]
    /\ wpc' = [wpc EXCEPT ![i] = 1]
    /\ UNCHANGED <<pc, GO111MODULE, hasModRoot, args, downloadJSON, listCalls, infos,
                   mods, calls, completed, stdout, stderr, k, exitStatus>>

\* what a stage returns for (path, version) when it succeeds
StageValue(stage, path, version) == stage \o ":" \o path \o "@" \o version

\* err.Error() of a failing stage
StageError(stage) == stage \o " failed"

\* the results a call of the stage may have
StageResults(stage) == IF stage \in Fallible THEN {"ok", "err"} ELSE {"ok"}

\* the worker goes on to the next stage after a failure
NextPosNoShortCircuit(s, res) == IF s = Len(StageNames) THEN Len(StageNames) + 1 ELSE s + 1

\* the position after stage s returned res: the next stage, or 7 for returned
NextPos(s, res) == IF res = "err" \/ s = Len(StageNames) THEN Len(StageNames) + 1 ELSE s + 1

\* a failure wipes the fields of the stages that succeeded
AfterStageHidden(m, s, res) ==
    IF res = "err"
    THEN [NewModuleJSON(m) EXCEPT !.Error = StageError(StageNames[s])]
    ELSE [m EXCEPT ![StageNames[s]] = StageValue(StageNames[s], m.Path, m.Version)]

\* a failing stage leaves a value in its field
AfterStagePartial(m, s, res) ==
    LET stage == StageNames[s]
        filled == [m EXCEPT ![stage] =
                      IF res = "none" THEN "" ELSE StageValue(stage, m.Path, m.Version)]
    IN  IF res = "err" THEN [filled EXCEPT !.Error = StageError(stage)] ELSE filled

\* the record after stage s returned res (download.go:158-184)
AfterStage(m, s, res) ==
    LET stage == StageNames[s]
        filled == [m EXCEPT ![stage] =
                      IF res = "ok" THEN StageValue(stage, m.Path, m.Version) ELSE ""]
    IN  IF res = "err" THEN [filled EXCEPT !.Error = StageError(stage)] ELSE filled

\* the worker ends the whole run when a stage fails
RunStageFatal(i) ==
    /\ pc = "do"
    /\ i \in work.running
    /\ wpc[i] \in 1..Len(StageNames)
    /\ \E res \in StageResults(StageNames[wpc[i]]) :
          LET s == wpc[i]
              n == NextPos(s, res)
          IN  /\ mods' = [mods EXCEPT ![i] = AfterStage(mods[i], s, res)]
              /\ calls' = [calls EXCEPT ![i] =
                              Append(@, [stage |-> StageNames[s], path |-> mods[i].Path,
                                         version |-> mods[i].Version, res |-> res])]
              /\ wpc' = [wpc EXCEPT ![i] = n]
              /\ IF n = Len(StageNames) + 1
                 THEN /\ work' = [work EXCEPT !.running = @ \ {i}]
                      /\ completed' = Append(completed, i)
                 ELSE UNCHANGED <<work, completed>>
              /\ IF res = "err"
                 THEN Fatalf(StageError(StageNames[s]))
                 ELSE UNCHANGED <<pc, stderr, exitStatus>>
    /\ UNCHANGED <<GO111MODULE, hasModRoot, args, downloadJSON, listCalls, infos,
                   stdout, k>>

\* the worker writes the record of its item when it returns
RunStageReports(i) ==
    /\ pc = "do"
    /\ i \in work.running
    /\ wpc[i] \in 1..Len(StageNames)
    /\ \E res \in StageResults(StageNames[wpc[i]]) :
          LET s == wpc[i]
              n == NextPos(s, res)
          IN  /\ mods' = [mods EXCEPT ![i] = AfterStage(mods[i], s, res)]
              /\ calls' = [calls EXCEPT ![i] =
                              Append(@, [stage |-> StageNames[s], path |-> mods[i].Path,
                                         version |-> mods[i].Version, res |-> res])]
              /\ wpc' = [wpc EXCEPT ![i] = n]
              /\ IF n = Len(StageNames) + 1
                 THEN /\ work' = [work EXCEPT !.running = @ \ {i}]
                      /\ completed' = Append(completed, i)
                      /\ stdout' = IF downloadJSON
                                   THEN Append(stdout, Marshal(AfterStage(mods[i], s, res)))
                                   ELSE stdout
                 ELSE UNCHANGED <<work, completed, stdout>>
    /\ UNCHANGED <<pc, GO111MODULE, hasModRoot, args, downloadJSON, listCalls, infos,
                   stderr, k, exitStatus>>

\* every worker writes to the record the loop made last, not to its item
RunStageCaptured(i) ==
    /\ pc = "do"
    /\ i \in work.running
    /\ wpc[i] \in 1..Len(StageNames)
    /\ \E res \in StageResults(StageNames[wpc[i]]) :
          LET s == wpc[i]
              n == NextPos(s, res)
              last == Len(mods)
          IN  /\ mods' = [mods EXCEPT ![last] = AfterStage(mods[last], s, res)]
              /\ calls' = [calls EXCEPT ![i] =
                              Append(@, [stage |-> StageNames[s], path |-> mods[last].Path,
                                         version |-> mods[last].Version, res |-> res])]
              /\ wpc' = [wpc EXCEPT ![i] = n]
              /\ IF n = Len(StageNames) + 1
                 THEN /\ work' = [work EXCEPT !.running = @ \ {i}]
                      /\ completed' = Append(completed, i)
                 ELSE UNCHANGED <<work, completed>>
    /\ UNCHANGED <<pc, GO111MODULE, hasModRoot, args, downloadJSON, listCalls, infos,
                   stdout, stderr, k, exitStatus>>

\* the worker of item i calls its next stage; it returns after a failure or the last stage
RunStage(i) ==
    /\ pc = "do"
    /\ i \in work.running
    /\ wpc[i] \in 1..Len(StageNames)
    /\ \E res \in StageResults(StageNames[wpc[i]]) :
          LET s == wpc[i]
              n == NextPos(s, res)
          IN  /\ mods' = [mods EXCEPT ![i] = AfterStage(mods[i], s, res)]
              /\ calls' = [calls EXCEPT ![i] =
                              Append(@, [stage |-> StageNames[s], path |-> mods[i].Path,
                                         version |-> mods[i].Version, res |-> res])]
              /\ wpc' = [wpc EXCEPT ![i] = n]
              /\ IF n = Len(StageNames) + 1
                 THEN /\ work' = [work EXCEPT !.running = @ \ {i}]
                      /\ completed' = Append(completed, i)
                 ELSE UNCHANGED <<work, completed>>
    /\ UNCHANGED <<pc, GO111MODULE, hasModRoot, args, downloadJSON, listCalls, infos,
                   stdout, stderr, k, exitStatus>>

\* the results of a stage call when modfetch.Sum may fail to produce the checksum:
\* the call at download.go:179 has no error result, so all it can give is "none",
\* the empty string
StageResultsSumFails(stage) == IF stage \in Fallible THEN {"ok", "err"} ELSE {"ok", "none"}

\* RunStage with a modfetch.Sum that may fail
RunStageSumFails(i) ==
    /\ pc = "do"
    /\ i \in work.running
    /\ wpc[i] \in 1..Len(StageNames)
    /\ \E res \in StageResultsSumFails(StageNames[wpc[i]]) :
          LET s == wpc[i]
              n == NextPos(s, res)
          IN  /\ mods' = [mods EXCEPT ![i] = AfterStage(mods[i], s, res)]
              /\ calls' = [calls EXCEPT ![i] =
                              Append(@, [stage |-> StageNames[s], path |-> mods[i].Path,
                                         version |-> mods[i].Version, res |-> res])]
              /\ wpc' = [wpc EXCEPT ![i] = n]
              /\ IF n = Len(StageNames) + 1
                 THEN /\ work' = [work EXCEPT !.running = @ \ {i}]
                      /\ completed' = Append(completed, i)
                 ELSE UNCHANGED <<work, completed>>
    /\ UNCHANGED <<pc, GO111MODULE, hasModRoot, args, downloadJSON, listCalls, infos,
                   stdout, stderr, k, exitStatus>>

\* work.Do returns when no item is left and no worker is running
DoReturn ==
    /\ pc = "do"
    /\ work.todo = {} /\ work.running = {}
    /\ pc' = "report"
    /\ k' = 1
    /\ UNCHANGED <<GO111MODULE, hasModRoot, args, downloadJSON, listCalls, infos, mods,
                   work, wpc, calls, completed, stdout, stderr, exitStatus>>

-----------------------------------------------------------------------------
(* download.go:187-205: reporting. *)

\* the JSON loop ends at the first record with an error
ReportJSONBreak ==
    /\ pc = "report"
    /\ downloadJSON
    /\ k <= Len(mods)
    /\ stdout' = Append(stdout, Marshal(mods[k]))
    /\ exitStatus' = IF mods[k].Error # "" THEN 1 ELSE exitStatus
    /\ k' = IF mods[k].Error # "" THEN Len(mods) + 1 ELSE k + 1
    /\ UNCHANGED <<pc, GO111MODULE, hasModRoot, args, downloadJSON, listCalls, infos, mods,
                   work, wpc, calls, completed, stderr>>

\* download.go:188-197: one iteration of the JSON loop
ReportJSON ==
    /\ pc = "report"
    /\ downloadJSON
    /\ k <= Len(mods)
    /\ stdout' = Append(stdout, Marshal(mods[k]))
    /\ exitStatus' = IF mods[k].Error # "" THEN 1 ELSE exitStatus
    /\ k' = k + 1
    /\ UNCHANGED <<pc, GO111MODULE, hasModRoot, args, downloadJSON, listCalls, infos, mods,
                   work, wpc, calls, completed, stderr>>

\* the plain loop ends the run at the first record with an error
ReportPlainFatal ==
    /\ pc = "report"
    /\ ~downloadJSON
    /\ k <= Len(mods)
    /\ IF mods[k].Error # ""
       THEN Fatalf(mods[k].Error) /\ UNCHANGED k
       ELSE k' = k + 1 /\ UNCHANGED <<pc, stderr, exitStatus>>
    /\ UNCHANGED <<GO111MODULE, hasModRoot, args, downloadJSON, listCalls, infos, mods,
                   work, wpc, calls, completed, stdout>>

\* the plain loop logs every record, with or without an error
ReportPlainAll ==
    /\ pc = "report"
    /\ ~downloadJSON
    /\ k <= Len(mods)
    /\ stderr' = Append(stderr, [kind |-> "error", text |-> mods[k].Error])
    /\ k' = k + 1
    /\ UNCHANGED <<pc, GO111MODULE, hasModRoot, args, downloadJSON, listCalls, infos, mods,
                   work, wpc, calls, completed, stdout, exitStatus>>

\* download.go:199-203: one iteration of the plain loop
ReportPlain ==
    /\ pc = "report"
    /\ ~downloadJSON
    /\ k <= Len(mods)
    /\ stderr' = IF mods[k].Error # ""
                 THEN Append(stderr, [kind |-> "error", text |-> mods[k].Error])
                 ELSE stderr
    /\ k' = k + 1
    /\ UNCHANGED <<pc, GO111MODULE, hasModRoot, args, downloadJSON, listCalls, infos, mods,
                   work, wpc, calls, completed, stdout, exitStatus>>

\* base.Errorf has logged a diagnostic
ErrorsLogged == \E j \in 1..Len(stderr) : stderr[j].kind = "error"

\* the end of the JSON loop, or base.ExitIfErrors at download.go:204
Finish ==
    /\ pc = "report"
    /\ k > Len(mods)
    /\ exitStatus' = IF ~downloadJSON /\ ErrorsLogged THEN 1 ELSE exitStatus
    /\ pc' = "done"
    /\ UNCHANGED <<GO111MODULE, hasModRoot, args, downloadJSON, listCalls, infos, mods,
                   work, wpc, calls, completed, stdout, stderr, k>>

-----------------------------------------------------------------------------

Init ==
    /\ pc = "start"
    /\ GO111MODULE \in {"off", "on"}
    /\ hasModRoot \in BOOLEAN
    /\ args \in ArgLists
    /\ downloadJSON \in BOOLEAN
    /\ listCalls = <<>>
    /\ infos = <<>>
    /\ mods = <<>>
    /\ work = EmptyWork
    /\ wpc = <<>>
    /\ calls = <<>>
    /\ completed = <<>>
    /\ stdout = <<>>
    /\ stderr = <<>>
    /\ k = 0
    /\ exitStatus = 0

Next ==
    \/ ModulesDisabled
    \/ NoModules
    \/ CheckArgs
    \/ ListModules
    \/ \E i \in 1..Len(mods) : StartWorker(i)
    \/ \E i \in 1..Len(mods) : RunStage(i)
    \/ DoReturn
    \/ ReportJSON
    \/ ReportPlain
    \/ Finish

Spec == Init /\ [][Next]_vars

\* every step of the program is eventually taken: the workers of work.Do are
\* scheduled and every stage call returns
FairSpec == Spec /\ WF_vars(Next)

\* the program with a modfetch.Sum that may fail.  Spec takes every stage call to
\* return a value or an error; here the archive-checksum stage may fail as well.
NextSumFails ==
    \/ ModulesDisabled
    \/ NoModules
    \/ CheckArgs
    \/ ListModules
    \/ \E i \in 1..Len(mods) : StartWorker(i)
    \/ \E i \in 1..Len(mods) : RunStageSumFails(i)
    \/ DoReturn
    \/ ReportJSON
    \/ ReportPlain
    \/ Finish

SumFailsSpec == Init /\ [][NextSumFails]_vars

-----------------------------------------------------------------------------
(* Notions the properties are stated with. *)

\* the descriptors of infos after following the replacement
RECURSIVE Followed(_)
Followed(l) == IF l = <<>> THEN <<>> ELSE <<FollowReplace(Head(l))>> \o Followed(Tail(l))

KeyOf(m) == <<m.Path, m.Version>>

KeysOf(l) == [j \in 1..Len(l) |-> KeyOf(l[j])]

\* the records that were handed to the scheduler
Scheduled == work.added

Returned(i) == wpc[i] = Len(StageNames) + 1

\* the number of worker invocations that were started for a (path, version)
Executions(key) ==
    Cardinality({i \in 1..Len(mods) : KeyOf(mods[i]) = key /\ Len(calls[i]) > 0})

\* the stage of a record that failed: 0 if none did
FailedStage(i) ==
    IF \E s \in 1..Len(calls[i]) : calls[i][s].res = "err"
    THEN CHOOSE s \in 1..Len(calls[i]) : calls[i][s].res = "err"
    ELSE 0

Populated(m, s) == m[StageNames[s]] # ""

FullyPopulated(m) == \A s \in 1..Len(StageNames) : Populated(m, s)

\* the value of a field in a marshalled record, "" if the field was omitted
JSONField(obj, name) ==
    IF \E j \in 1..Len(obj) : obj[j][1] = name
    THEN obj[CHOOSE j \in 1..Len(obj) : obj[j][1] = name][2]
    ELSE ""

IsErrorLine(line) == line.kind = "error"

\* the diagnostics base.Errorf wrote
Diagnostics == SelectSeq(stderr, IsErrorLine)

\* the errors of the first n records, in the order of the records
RECURSIVE ErrorsUpTo(_)
ErrorsUpTo(n) ==
    IF n = 0 THEN <<>>
    ELSE ErrorsUpTo(n - 1) \o
         (IF mods[n].Error # "" THEN <<[kind |-> "error", text |-> mods[n].Error]>> ELSE <<>>)

Listed == pc \in {"do", "report", "done"}

Reporting == pc \in {"report", "done"}

-----------------------------------------------------------------------------
(* C1. When the run reaches reporting, the fetch pipeline has been executed  *)
(* exactly once for every (path, version) that a descriptor without          *)
(* resolution error and with a version carries after its replacement was     *)
(* followed, no matter how many descriptors carry it.                        *)
C1_OncePerKey ==
    Reporting =>
        \A j \in 1..Len(infos) :
            LET d == FollowReplace(infos[j])
            IN  (d.Error = "" /\ d.Version # "") => Executions(KeyOf(d)) = 1

-----------------------------------------------------------------------------
(* C2. In every state the records written to standard output (JSON mode) and *)
(* the diagnostics written (plain mode) are those of the first records of    *)
(* the outcome list, in the order in which the resolver returned their       *)
(* descriptors, whatever the order in which the pipelines completed.         *)
IsOutcome(d) == ~(d.Version = "" /\ d.Error = "")

ResolutionOrder == KeysOf(SelectSeq(Followed(infos), IsOutcome))

C2_ReportOrder ==
    Listed =>
        /\ KeysOf(mods) = ResolutionOrder
        /\ Len(stdout) <= Len(mods)
        /\ \A j \in 1..Len(stdout) :
               /\ JSONField(stdout[j], "Path") = ResolutionOrder[j][1]
               /\ JSONField(stdout[j], "Version") = ResolutionOrder[j][2]
               /\ stdout[j] = Marshal(mods[j])
        /\ Reporting => Diagnostics = (IF downloadJSON THEN <<>>
                                       ELSE ErrorsUpTo(IF pc = "done" THEN Len(mods) ELSE k - 1))

\* a run in JSON mode whose second record completed before its first one
C2_Witness ==
    /\ pc = "done"
    /\ downloadJSON
    /\ Len(completed) >= 2
    /\ completed[1] > completed[2]
    /\ Len(stdout) = Len(mods)
    /\ KeyOf(mods[1]) # KeyOf(mods[2])

-----------------------------------------------------------------------------
-----------------------------------------------------------------------------
(* C4. As stated: the number of outcome records equals the number of         *)
(* descriptors that have a non-empty version after the replacement was       *)
(* followed, and no record has an empty version.                             *)
HasVersion(d) == d.Version # ""

C4_Original ==
    Listed =>
        /\ Len(mods) = Len(SelectSeq(Followed(infos), HasVersion))
        /\ \A i \in 1..Len(mods) : mods[i].Version # ""

(* C4, amended: the number of outcome records equals the number of           *)
(* descriptors that, after the replacement was followed, have a non-empty    *)
(* version or a resolution error; each of them gives exactly one record, in  *)
(* order; a descriptor with empty version and no error gives none, so a      *)
(* record with an empty version carries a resolution error and is never      *)
(* scheduled.                                                                *)
C4_Amended ==
    Listed =>
        /\ Len(mods) = Len(SelectSeq(Followed(infos), IsOutcome))
        /\ \A i \in 1..Len(mods) :
               /\ KeyOf(mods[i]) = KeyOf(SelectSeq(Followed(infos), IsOutcome)[i])
               /\ mods[i].Version = "" => (mods[i].Error # "" /\ i \notin Scheduled)

\* a module replaced by a directory is dropped, a descriptor with an error and no
\* version gets its record
C4_Witness ==
    /\ pc = "done"
    /\ Len(infos) = 2
    /\ infos[1].Replace # <<>> /\ infos[1].Replace[1].Version = ""
    /\ infos[2].Version = "" /\ infos[2].Error # ""
    /\ Len(mods) = 1
    /\ mods[1].Version = ""

-----------------------------------------------------------------------------
-----------------------------------------------------------------------------
(* C6. In every state and for every record with an error: the fields of the  *)
(* failing stage and of the stages after it are unset and the fields of the  *)
(* stages before it are populated; a record with a resolution error has no   *)
(* failing stage and no field.                                               *)
ErrorStage(m) ==
    IF \E s \in 1..Len(StageNames) : m.Error = StageError(StageNames[s])
    THEN CHOOSE s \in 1..Len(StageNames) : m.Error = StageError(StageNames[s])
    ELSE 0

-----------------------------------------------------------------------------
(* C7. As stated: the failure indicator is set only once all output has been *)
(* produced; at the end of the run it is set exactly if some record carries  *)
(* an error, and every record (JSON mode) or every error (plain mode) has    *)
(* been emitted.                                                             *)
SomeError == \E i \in 1..Len(mods) : mods[i].Error # ""

AllOutput ==
    IF downloadJSON
    THEN stdout = [i \in 1..Len(mods) |-> Marshal(mods[i])] /\ Diagnostics = <<>>
    ELSE stdout = <<>> /\ Diagnostics = ErrorsUpTo(Len(mods))

C7_Original ==
    Listed =>
        /\ exitStatus # 0 => AllOutput
        /\ pc = "done" => ((exitStatus # 0 <=> SomeError) /\ AllOutput)

(* C7, amended: at the end of the run the failure indicator is set exactly   *)
(* if some record carries an error, and every record (JSON mode) or every    *)
(* error (plain mode) has been emitted, those after a record with an error   *)
(* included; the indicator is never set before the record or diagnostic of   *)
(* the first outcome with an error has been emitted (in JSON mode it is set  *)
(* right then, while later records are still to be written).                 *)
C7_Amended ==
    Listed =>
        /\ exitStatus \in {0, 1}
        /\ exitStatus # 0 =>
               /\ Reporting
               /\ \E i \in 1..Len(mods) :
                      /\ mods[i].Error # ""
                      /\ IF downloadJSON THEN i <= Len(stdout) ELSE Diagnostics # <<>>
        /\ (Reporting /\ downloadJSON) =>
               \A i \in 1..Len(stdout) : mods[i].Error # "" => exitStatus = 1
        /\ pc = "done" => ((exitStatus # 0 <=> SomeError) /\ AllOutput)

\* JSON mode: the first record has an error, and the records after it were written
C7_Witness ==
    /\ pc = "done"
    /\ downloadJSON
    /\ Len(mods) >= 2
    /\ mods[1].Error # ""
    /\ mods[Len(mods)].Error = ""
    /\ Len(stdout) = Len(mods)
    /\ exitStatus = 1

-----------------------------------------------------------------------------
(* C8. With GO111MODULE=off the first step of the run is the fatal           *)
(* configuration error, and with no arguments and no module root it is the   *)
(* fatal usage error; a run that ended fatally has not called the resolver,  *)
(* has no record, no work item, no stage call and no output record.  With no *)
(* arguments and a module root the first step does not fail and makes the    *)
(* arguments the single pattern "all", which is what the resolver is called  *)
(* with.                                                                     *)
FatalLine(msg) == <<[kind |-> "fatal", text |-> msg]>>

C8_FirstStep ==
    pc = "start" =>
        /\ GO111MODULE = "off" =>
               /\ pc' = "fatal"
               /\ stderr' = FatalLine("go: modules disabled by GO111MODULE=off")
               /\ exitStatus' = 1
        /\ (GO111MODULE # "off" /\ ~hasModRoot /\ args = <<>>) =>
               /\ pc' = "fatal"
               /\ stderr' = FatalLine("go mod download: no modules specified")
               /\ exitStatus' = 1
        /\ (GO111MODULE # "off" /\ hasModRoot /\ args = <<>>) =>
               /\ pc' = "list"
               /\ args' = <<"all">>
               /\ exitStatus' = 0 /\ stderr' = <<>>

C8_Aborted ==
    /\ pc = "fatal" =>
           /\ listCalls = <<>> /\ infos = <<>>
           /\ mods = <<>> /\ work = EmptyWork
           /\ calls = <<>> /\ completed = <<>>
           /\ stdout = <<>>
           /\ exitStatus = 1
    /\ pc # "start" => listCalls \in {<<>>, <<args>>}
    /\ Listed => listCalls = <<args>>

C8_FatalChecks == [][C8_FirstStep]_vars /\ []C8_Aborted

\* the usage error: modules are on, no module root, no arguments
C8_Witness ==
    /\ pc = "fatal"
    /\ GO111MODULE # "off"
    /\ ~hasModRoot
    /\ args = <<>>
    /\ exitStatus = 1

-----------------------------------------------------------------------------
(* C9. Under fair scheduling, a run that passed the configuration and usage  *)
(* checks eventually is done, and then every record has been reported: as a  *)
(* record in JSON mode, as a diagnostic in plain mode when it has an error.  *)
C9_Completes == (pc = "list") ~> (pc = "done" /\ AllOutput)

\* a finished plain run that reported a failed record and had a successful one
C9_Witness ==
    /\ pc = "done"
    /\ ~downloadJSON
    /\ AllOutput
    /\ \E i \in 1..Len(mods) : FailedStage(i) # 0
    /\ \E i \in 1..Len(mods) : FullyPopulated(mods[i])

-----------------------------------------------------------------------------
(* C10. When the run reports, no two records of the outcome list have the    *)
(* same (path, version), and the pipeline of a (path, version) was invoked   *)
(* at most once: when the resolver returned a@v1, a@v1, b@v2 there are       *)
(* exactly 2 records.                                                        *)
C10_OneRecordPerKey ==
    Reporting =>
        /\ \A i, j \in 1..Len(mods) : KeyOf(mods[i]) = KeyOf(mods[j]) => i = j
        /\ KeysOf(Followed(infos)) = <<<<"a", "v1">>, <<"a", "v1">>, <<"b", "v2">>>> =>
               (Len(mods) = 2 /\ Executions(<<"a", "v1">>) = 1)

-----------------------------------------------------------------------------
(* C11. As stated: in every state, a record whose archive-checksum stage     *)
(* failed carries an error, has its info, manifest and manifest-checksum     *)
(* fields and has neither the archive nor the directory field; when the run  *)
(* is done the exit status is failure.                                       *)
StageFailed(i, stage) ==
    \E s \in 1..Len(calls[i]) : calls[i][s].stage = stage /\ calls[i][s].res # "ok"

-----------------------------------------------------------------------------
(* C12. A descriptor returned with a resolution error has its record, which  *)
(* carries that error, is never handed to the scheduler, has no stage call   *)
(* and no stage field, and is reported; the descriptors returned without     *)
(* error next to it are scheduled, run their pipeline and are reported.      *)
Outcomes == SelectSeq(Followed(infos), IsOutcome)

C12_ResolutionErrors ==
    Listed =>
        /\ Len(mods) = Len(Outcomes)
        /\ \A i \in 1..Len(mods) :
               IF Outcomes[i].Error # ""
               THEN /\ mods[i].Error = Outcomes[i].Error
                    /\ i \notin work.added \cup work.todo \cup work.running
                    /\ wpc[i] = 0
                    /\ calls[i] = <<>>
                    /\ \A s \in 1..Len(StageNames) : ~Populated(mods[i], s)
                    /\ (pc = "done" /\ downloadJSON) =>
                           JSONField(stdout[i], "Error") = Outcomes[i].Error
                    /\ (pc = "done" /\ ~downloadJSON) =>
                           \E j \in 1..Len(Diagnostics) :
                               Diagnostics[j].text = Outcomes[i].Error
               ELSE /\ i \in Scheduled
                    /\ Reporting => (Returned(i) /\ calls[i] # <<>>)
                    /\ (pc = "done" /\ downloadJSON) => stdout[i] = Marshal(mods[i])

\* the first descriptor could not be resolved, the second one was fetched and reported
C12_Witness ==
    /\ pc = "done"
    /\ downloadJSON
    /\ Len(mods) = 2
    /\ infos[1].Error # ""
    /\ mods[1].Error = infos[1].Error
    /\ calls[1] = <<>>
    /\ FullyPopulated(mods[2])
    /\ Len(stdout) = 2

-----------------------------------------------------------------------------
(* C13. With a module root, once the arguments were checked: the run has not *)
(* failed fatally, standard error has exactly one notice for every argument  *)
(* that names the main module, and no such argument is among the patterns    *)
(* the resolver is called with.                                              *)
IsSkipLine(line) == line.kind = "skip"

NotMainArg(arg) == ~IsMainModuleArg(arg)

C13_MainModuleSkipped ==
    (pc # "start" /\ GO111MODULE # "off" /\ hasModRoot) =>
        /\ pc # "fatal"
        /\ Len(SelectSeq(stderr, IsSkipLine)) = Len(SelectSeq(args, IsMainModuleArg))
        /\ \A c \in 1..Len(listCalls) : listCalls[c] = SelectSeq(args, NotMainArg)

-----------------------------------------------------------------------------
(* C14. In plain mode nothing is ever written to standard output and the     *)
(* number of diagnostics is the number of records with an error among those  *)
(* the loop has passed, each diagnostic being the error of such a record; in *)
(* JSON mode the number of records written is the number of records the loop *)
(* has passed, one for each, with or without error, and no diagnostic is     *)
(* written.                                                                  *)
Passed == IF pc = "done" THEN Len(mods) ELSE IF pc = "report" THEN k - 1 ELSE 0

C14_OutputPerMode ==
    Listed =>
        IF downloadJSON
        THEN /\ Len(stdout) = Passed
             /\ \A i \in 1..Len(stdout) :
                    /\ JSONField(stdout[i], "Path") = mods[i].Path
                    /\ JSONField(stdout[i], "Error") = mods[i].Error
             /\ Diagnostics = <<>>
        ELSE /\ stdout = <<>>
             /\ Len(Diagnostics) = Cardinality({i \in 1..Passed : mods[i].Error # ""})
             /\ \A j \in 1..Len(Diagnostics) :
                    /\ Diagnostics[j].text # ""
                    /\ \E i \in 1..Passed : mods[i].Error = Diagnostics[j].text

\* a finished plain run with a failed and a successful record: one diagnostic
C14_Witness ==
    /\ pc = "done"
    /\ ~downloadJSON
    /\ Len(mods) = 2
    /\ mods[1].Error = "" /\ FullyPopulated(mods[1])
    /\ mods[2].Error # ""
    /\ Len(Diagnostics) = 1
    /\ stdout = <<>>

-----------------------------------------------------------------------------
(* C15. Nothing is reported before work.Do has returned: in every state in   *)
(* which a record or a diagnostic has been written, or the run is reporting, *)
(* no item is pending or running and every scheduled record's worker has     *)
(* returned.                                                                 *)
C15_ReportAfterDrain ==
    (stdout # <<>> \/ Diagnostics # <<>> \/ Reporting) =>
        /\ work.todo = {} /\ work.running = {}
        /\ \A i \in Scheduled : Returned(i)
        /\ Len(completed) = Cardinality(Scheduled)

\* the first record is being written after two workers have returned
C15_Witness ==
    /\ pc = "report"
    /\ Len(completed) = 2
    /\ Len(stdout) = 1
    /\ k = 2

-----------------------------------------------------------------------------
(* C17. Once the records exist, a step changes a record only if it is a      *)
(* stage call of the worker invocation that runs that record: the run is     *)
(* inside work.Do, the record was scheduled (it has no resolution error),    *)
(* its worker is running and has not returned.  A record is taken by a       *)
(* worker at most once, from the pending items, and the position of its      *)
(* worker only advances; after its worker returned the record never changes, *)
(* in work.Do or while reporting.                                            *)
C17_Step ==
    (Listed /\ Len(mods') = Len(mods)) =>
        \A j \in 1..Len(mods) :
            /\ mods'[j] # mods[j] =>
                   /\ pc = "do"
                   /\ j \in Scheduled
                   /\ j \in work.running
                   /\ ~Returned(j)
                   /\ Len(calls'[j]) = Len(calls[j]) + 1
                   /\ \A i \in 1..Len(mods) : i # j => calls'[i] = calls[i]
            /\ wpc'[j] # wpc[j] =>
                   \/ wpc[j] = 0 /\ wpc'[j] = 1 /\ j \in work.todo /\ j \notin work.running
                   \/ wpc[j] >= 1 /\ wpc'[j] > wpc[j] /\ j \in work.running
            /\ j \in work.running' => (j \in work.running \/ wpc[j] = 0)

C17_Disjoint ==
    Listed =>
        /\ work.todo \cap work.running = {}
        /\ \A j \in 1..Len(mods) :
               /\ j \in work.running <=> wpc[j] \in 1..Len(StageNames)
               /\ j \in work.todo <=> (j \in Scheduled /\ wpc[j] = 0)

C17_SingleWriter == [][C17_Step]_vars /\ []C17_Disjoint

\* two workers are writing to their two records at the same time
C17_Witness ==
    /\ pc = "do"
    /\ work.running = {1, 2}
    /\ mods[1].Info # "" /\ mods[2].Info # ""
    /\ mods[1].Path = mods[2].Path

-----------------------------------------------------------------------------
(* C18. For a descriptor with a replacement everything is that of the        *)
(* replacement itself, not of the original and not of a replacement of the   *)
(* replacement: whether it gets a record, the path, version and resolution   *)
(* error of the record, whether it is scheduled, and the path and version    *)
(* every stage is called with and every stage field is made from.            *)
Replaced(info) == info.Replace # <<>>

Effective(info) == IF Replaced(info) THEN info.Replace[1] ELSE info

GivesRecord(info) == Effective(info).Version # "" \/ Effective(info).Error # ""

C18_ReplacementUsed ==
    Listed =>
        LET given == SelectSeq(infos, GivesRecord)
        IN  /\ Len(mods) = Len(given)
            /\ \A i \in 1..Len(mods) :
                   LET e == Effective(given[i])
                   IN  /\ mods[i].Path = e.Path
                       /\ mods[i].Version = e.Version
                       /\ i \in Scheduled <=> e.Error = ""
                       /\ i \notin Scheduled => mods[i].Error = e.Error
                       /\ \A c \in 1..Len(calls[i]) :
                              /\ calls[i][c].path = e.Path
                              /\ calls[i][c].version = e.Version
                       /\ \A s \in 1..Len(StageNames) :
                              Populated(mods[i], s) =>
                                  mods[i][StageNames[s]] =
                                      StageValue(StageNames[s], e.Path, e.Version)

\* r@v0, replaced by b@v2, was fetched as b@v2, and f@v0, replaced by a directory,
\* got no record
C18_Witness ==
    /\ pc = "done"
    /\ Len(infos) = 2
    /\ Replaced(infos[1]) /\ infos[1].Error # "" /\ Replaced(infos[1].Replace[1])
    /\ Replaced(infos[2]) /\ infos[2].Version # "" /\ infos[2].Replace[1].Version = ""
    /\ Len(mods) = 1
    /\ KeyOf(mods[1]) = KeyOf(infos[1].Replace[1])
    /\ mods[1].Error = ""
    /\ FullyPopulated(mods[1])
    /\ calls[1][1].path = infos[1].Replace[1].Path

-----------------------------------------------------------------------------
(* C19. While the run reports, every record has exactly one of three shapes: *)
(* a resolution error and no stage field; the error of a failed stage and    *)
(* exactly the fields of the stages before it; no error and all six fields.  *)
ResolutionErrorShape(i) ==
    /\ i \notin Scheduled
    /\ mods[i].Error # ""
    /\ ErrorStage(mods[i]) = 0
    /\ \A s \in 1..Len(StageNames) : ~Populated(mods[i], s)

StageErrorShape(i) ==
    /\ i \in Scheduled
    /\ ErrorStage(mods[i]) # 0
    /\ ErrorStage(mods[i]) = FailedStage(i)
    /\ \A s \in 1..Len(StageNames) : Populated(mods[i], s) <=> s < ErrorStage(mods[i])

SuccessShape(i) ==
    /\ i \in Scheduled
    /\ mods[i].Error = ""
    /\ FullyPopulated(mods[i])

ShapesOf(i) ==
    {sh \in {"resolution", "stage", "success"} :
        \/ sh = "resolution" /\ ResolutionErrorShape(i)
        \/ sh = "stage" /\ StageErrorShape(i)
        \/ sh = "success" /\ SuccessShape(i)}

====
